---- MODULE Spec2Model ----
(***************************************************************************)
(* A model of 24.py: the Card class, the left-to-right evaluator           *)
(* get_value, the per-ordering enumerator get_possible_ops and the solver  *)
(* solve.  The three functions are pure, so each is an operator computed   *)
(* the way the code computes it; the state machine draws their inputs      *)
(* from bounded sets and records the last call and what it produced.       *)
(***************************************************************************)
EXTENDS Integers, Sequences, FiniteSets, TLC

VARIABLES
    order,      \* iteration order of the dict OPERATOR_MAPPING in this process
    hand,       \* the list `cards` main() is filling
    called,     \* name of the function the driver has called ("none" before)
    args,       \* the arguments of that call
    result      \* what the call produced: a value or the exception raised

vars == <<order, hand, called, args, result>>

----------------------------------------------------------------------------
(* Bounds of the model                                                     *)

\* longest hand the model deals (the classic game deals 4)
MaxHand == 3

\* the (rank, suit) pairs main()'s loop is fed in the model
DealInputs ==
    { <<"2", "h">>, <<"2", "s">>, <<"3", "d">>, <<"K", "h">> }

\* target values tried
TargetInputs == {-1, 0, 6, 10, 24}

\* rank and suit arguments tried on the constructor, valid and invalid
RankInputs ==
    {"A", "2", "3", "4", "5", "6", "7", "8", "9", "10", "J", "Q", "K",
     "1", "h"}

SuitInputs == {"h", "c", "d", "s", "x"}

----------------------------------------------------------------------------
(* Module-level tables                                                     *)

\* keys of the dict OPERATOR_MAPPING
OPERATOR_MAPPING == {"+", "-", "*", "/"}

\* the function OPERATOR_MAPPING[op] applied to (a, b); int.__div__ is
\* Python 2 floor division, which is what \div computes
op_func(op, a, b) ==
    CASE op = "+" -> a + b
      [] op = "-" -> a - b
      [] op = "*" -> a * b
      [] op = "/" -> a \div b

\* Card.RANKS, {rank : value}
RANKS ==
    ("A" :> 1) @@ ("2" :> 2) @@ ("3" :> 3) @@ ("4" :> 4) @@ ("5" :> 5) @@
    ("6" :> 6) @@ ("7" :> 7) @@ ("8" :> 8) @@ ("9" :> 9) @@ ("10" :> 10) @@
    ("J" :> 10) @@ ("Q" :> 10) @@ ("K" :> 10)

\* Card.SUITS
SUITS == {"h", "c", "d", "s"}

\* every order in which iterating a dict with these four keys can yield them
DictOrders ==
    { o \in [1..4 -> OPERATOR_MAPPING] : \A i, j \in 1..4 : i # j => o[i] # o[j] }

----------------------------------------------------------------------------
(* Card.__init__: the card in a one-element sequence, or the exception     *)

\* variant: the suit is not validated
Card_any_suit(rank, suit) ==
    IF rank \notin DOMAIN RANKS
    THEN [status |-> "ValueError", card |-> <<>>]
    ELSE [status |-> "ok",
          card |-> << [rank |-> rank, suit |-> suit, value |-> RANKS[rank]] >>]

Card(rank, suit) ==
    IF rank \notin DOMAIN RANKS
    THEN [status |-> "ValueError", card |-> <<>>]
    ELSE IF suit \notin SUITS
    THEN [status |-> "ValueError", card |-> <<>>]
    ELSE [status |-> "ok",
          card |-> << [rank |-> rank, suit |-> suit, value |-> RANKS[rank]] >>]

----------------------------------------------------------------------------
(* get_value                                                               *)

\* variant: no exactness check, every division floors
RECURSIVE gv_loop_floor(_, _, _, _)
gv_loop_floor(cards, operators, i, value) ==
    IF i >= Len(cards) - 1
    THEN [status |-> "ok", value |-> <<value>>, steps |-> i]
    ELSE gv_loop_floor(cards, operators, i + 1,
                       op_func(operators[i + 1], value, cards[i + 2].value))

\* variant: the exactness check looks at positive totals only
RECURSIVE gv_loop_positive(_, _, _, _)
gv_loop_positive(cards, operators, i, value) ==
    IF i >= Len(cards) - 1
    THEN [status |-> "ok", value |-> <<value>>, steps |-> i]
    ELSE LET c  == cards[i + 2]
             op == operators[i + 1]
         IN  IF op = "/" /\ value > 0 /\ value % c.value # 0
             THEN [status |-> "ValueError", value |-> <<>>, steps |-> i]
             ELSE gv_loop_positive(cards, operators, i + 1,
                                   op_func(op, value, c.value))

\* variant: the card is the left operand of +, - and *, the total the right
RECURSIVE gv_loop_swapped(_, _, _, _)
gv_loop_swapped(cards, operators, i, value) ==
    IF i >= Len(cards) - 1
    THEN [status |-> "ok", value |-> <<value>>, steps |-> i]
    ELSE LET c  == cards[i + 2]
             op == operators[i + 1]
         IN  IF op = "/" /\ value % c.value # 0
             THEN [status |-> "ValueError", value |-> <<>>, steps |-> i]
             ELSE gv_loop_swapped(cards, operators, i + 1,
                    IF op = "/" THEN op_func(op, value, c.value)
                    ELSE op_func(op, c.value, value))

\* The for loop of get_value from its i-th iteration on (i counts from 0),
\* with `value` the total so far.  steps = operators applied before return.
RECURSIVE gv_loop(_, _, _, _)
gv_loop(cards, operators, i, value) ==
    IF i >= Len(cards) - 1
    THEN [status |-> "ok", value |-> <<value>>, steps |-> i]
    ELSE LET c  == cards[i + 2]
             op == operators[i + 1]
         IN  IF op = "/" /\ value % c.value # 0
             THEN [status |-> "ValueError", value |-> <<>>, steps |-> i]
             ELSE gv_loop(cards, operators, i + 1, op_func(op, value, c.value))

\* variant: only too few operators fail the check; extra ones are ignored
get_value_lenient(cards, operators) ==
    IF Len(cards) = 0 \/ Len(cards) > Len(operators) + 1
    THEN [status |-> "AssertionError", value |-> <<>>, steps |-> 0]
    ELSE gv_loop(cards, operators, 0, cards[1].value)

get_value(cards, operators) ==
    IF Len(cards) # Len(operators) + 1
    THEN [status |-> "AssertionError", value |-> <<>>, steps |-> 0]
    ELSE gv_loop(cards, operators, 0, cards[1].value)

----------------------------------------------------------------------------
(* itertools helpers, as sequences in the order the iterators yield        *)

RECURSIVE Flatten(_)
Flatten(ss) == IF ss = <<>> THEN <<>> ELSE Head(ss) \o Flatten(Tail(ss))

\* tuples of length r over pool[lo..], indices non-decreasing
RECURSIVE cwr_from(_, _, _)
cwr_from(pool, lo, r) ==
    IF r = 0 THEN << <<>> >>
    ELSE Flatten([k \in 1..(Len(pool) - lo + 1) |->
            LET i    == lo + k - 1
                rest == cwr_from(pool, i, r - 1)
            IN  [j \in 1..Len(rest) |-> <<pool[i]>> \o rest[j]]])

\* variant: a negative r yields nothing instead of raising
combinations_with_replacement_lax(pool, r) ==
    IF r < 0
    THEN [status |-> "ok", items |-> <<>>]
    ELSE [status |-> "ok", items |-> cwr_from(pool, 1, r)]

\* itertools.combinations_with_replacement(pool, r); ValueError when r < 0
combinations_with_replacement(pool, r) ==
    IF r < 0
    THEN [status |-> "ValueError", items |-> <<>>]
    ELSE [status |-> "ok", items |-> cwr_from(pool, 1, r)]

Remove(s, i) == [j \in 1..(Len(s) - 1) |-> IF j < i THEN s[j] ELSE s[j + 1]]

\* itertools.permutations(s): every ordering by position
RECURSIVE permutations(_)
permutations(s) ==
    IF s = <<>> THEN << <<>> >>
    ELSE Flatten([i \in 1..Len(s) |->
            LET rest == permutations(Remove(s, i))
            IN  [j \in 1..Len(rest) |-> <<s[i]>> \o rest[j]]])

----------------------------------------------------------------------------
(* get_possible_ops                                                        *)

\* variant: the first non-integer division ends the loop
RECURSIVE gpo_loop_stop(_, _, _, _, _)
gpo_loop_stop(cards, target_value, items, k, possibilities) ==
    IF k > Len(items)
    THEN [status |-> "ok", possibilities |-> possibilities]
    ELSE LET op_list == items[k]
             v       == get_value(cards, op_list)
         IN  IF v.status = "ValueError"
             THEN [status |-> "ok", possibilities |-> possibilities]
             ELSE IF v.status # "ok"
             THEN [status |-> v.status, possibilities |-> <<>>]
             ELSE IF v.value[1] = target_value
             THEN gpo_loop_stop(cards, target_value, items, k + 1,
                                Append(possibilities, op_list))
             ELSE gpo_loop_stop(cards, target_value, items, k + 1,
                                possibilities)

\* the for loop over op_list, from candidate k on, with the list so far
RECURSIVE gpo_loop(_, _, _, _, _)
gpo_loop(cards, target_value, items, k, possibilities) ==
    IF k > Len(items)
    THEN [status |-> "ok", possibilities |-> possibilities]
    ELSE LET op_list == items[k]
             v       == get_value(cards, op_list)
         IN  IF v.status = "ValueError"
             THEN gpo_loop(cards, target_value, items, k + 1, possibilities)
             ELSE IF v.status # "ok"
             THEN [status |-> v.status, possibilities |-> <<>>]
             ELSE IF v.value[1] = target_value
             THEN gpo_loop(cards, target_value, items, k + 1,
                           Append(possibilities, op_list))
             ELSE gpo_loop(cards, target_value, items, k + 1, possibilities)

\* ord is the iteration order of OPERATOR_MAPPING
get_possible_ops(ord, cards, target_value) ==
    LET it == combinations_with_replacement(ord, Len(cards) - 1)
    IN  IF it.status # "ok"
        THEN [status |-> it.status, possibilities |-> <<>>]
        ELSE gpo_loop(cards, target_value, it.items, 1, <<>>)

----------------------------------------------------------------------------
(* solve                                                                   *)

\* " ".join(s)
RECURSIVE join(_)
join(s) ==
    IF s = <<>> THEN ""
    ELSE IF Len(s) = 1 THEN s[1]
    ELSE s[1] \o " " \o join(Tail(s))

\* the list s built for one card_list and op_list
solution_list(card_list, op_list) ==
    Flatten([i \in 1..Len(op_list) |-> <<card_list[i].rank, op_list[i]>>])
        \o <<card_list[Len(card_list)].rank>>

\* the outer loop over card_list, from permutation p on
RECURSIVE solve_loop(_, _, _, _, _)
solve_loop(ord, perms, target_value, p, solutions) ==
    IF p > Len(perms)
    THEN [status |-> "ok", solutions |-> solutions]
    ELSE LET card_list == perms[p]
             r         == get_possible_ops(ord, card_list, target_value)
         IN  IF r.status # "ok"
             THEN [status |-> r.status, solutions |-> {}]
             ELSE solve_loop(ord, perms, target_value, p + 1,
                    solutions \cup
                    { join(solution_list(card_list, r.possibilities[k])) :
                        k \in 1..Len(r.possibilities) })

solve(ord, cards, target_value) ==
    solve_loop(ord, permutations(cards), target_value, 1, {})

----------------------------------------------------------------------------
(* The state machine                                                       *)

AllOps(n) == [1..n -> OPERATOR_MAPPING]

OperatorInputs == UNION { AllOps(n) : n \in 0..MaxHand }

Init ==
    /\ order \in DictOrders
    /\ hand = <<>>
    /\ called = "none"
    /\ args = <<>>
    /\ result = <<>>

\* main()'s input loop, one round: construct the card and append it.  The
\* driver deals while it has made no call yet (main() deals, then calls).
Deal ==
    /\ called = "none"
    /\ Len(hand) < MaxHand
    /\ \E in \in DealInputs :
        LET r == Card(in[1], in[2])
        IN  /\ \A i \in 1..Len(hand) : <<hand[i].rank, hand[i].suit>> # in
            /\ hand' = IF r.status = "ok" THEN Append(hand, r.card[1]) ELSE hand
            /\ UNCHANGED <<order, called, args, result>>

\* a constructor call on arbitrary arguments
NewCard ==
    /\ called = "none"
    /\ \E rank \in RankInputs, suit \in SuitInputs :
        /\ called' = "Card"
        /\ args' = <<rank, suit>>
        /\ result' = Card(rank, suit)
        /\ UNCHANGED <<order, hand>>

CallGetValue ==
    /\ called = "none"
    /\ \E operators \in OperatorInputs :
        /\ called' = "get_value"
        /\ args' = <<hand, operators>>
        /\ result' = get_value(hand, operators)
        /\ UNCHANGED <<order, hand>>

CallGetPossibleOps ==
    /\ called = "none"
    /\ \E target_value \in TargetInputs :
        /\ called' = "get_possible_ops"
        /\ args' = <<hand, target_value>>
        /\ result' = get_possible_ops(order, hand, target_value)
        /\ UNCHANGED <<order, hand>>

\* the call main() makes once the hand is complete
CallSolve ==
    /\ called = "none"
    /\ \E target_value \in TargetInputs :
        /\ called' = "solve"
        /\ args' = <<hand, target_value>>
        /\ result' = solve(order, hand, target_value)
        /\ UNCHANGED <<order, hand>>

Next ==
    \/ NewCard
    \/ Deal
    \/ CallGetValue
    \/ CallGetPossibleOps
    \/ CallSolve

Spec == Init /\ [][Next]_vars

----------------------------------------------------------------------------
(* What the rules of the game say, stated without the code's loops         *)

Abs(n) == IF n < 0 THEN -n ELSE n

\* a is an exact multiple of c
Multiple(a, c) == \E q \in -Abs(a)..Abs(a) : q * c = a

\* the four operations of the game on integers; "/" only where it is exact
RuleApply(op, a, b) ==
    CASE op = "+" -> a + b
      [] op = "-" -> a - b
      [] op = "*" -> a * b
      [] op = "/" -> CHOOSE q \in -Abs(a)..Abs(a) : q * b = a

\* left-to-right value of cs with ops, <<v>>, or <<>> when some division on
\* the way is not exact; defined on the prefix, last operator applied last
RECURSIVE RuleValue(_, _)
RuleValue(cs, ops) ==
    IF Len(cs) = 1 THEN <<cs[1].value>>
    ELSE LET n    == Len(cs)
             prev == RuleValue(SubSeq(cs, 1, n - 1), SubSeq(ops, 1, n - 2))
         IN  IF prev = <<>> THEN <<>>
             ELSE IF ops[n - 1] = "/" /\ ~Multiple(prev[1], cs[n].value) THEN <<>>
             ELSE <<RuleApply(ops[n - 1], prev[1], cs[n].value)>>

\* rank, op, rank, ..., rank separated by single blanks
RECURSIVE RuleString(_, _)
RuleString(cs, ops) ==
    IF Len(cs) = 1 THEN cs[1].rank
    ELSE LET n == Len(cs)
         IN  RuleString(SubSeq(cs, 1, n - 1), SubSeq(ops, 1, n - 2))
                 \o " " \o ops[n - 1] \o " " \o cs[n].rank

\* every ordering of the hand, as the bijections of its positions
Orderings(cs) ==
    { [i \in 1..Len(cs) |-> cs[f[i]]] :
        f \in { g \in [1..Len(cs) -> 1..Len(cs)] :
                  \A i, j \in 1..Len(cs) : i # j => g[i] # g[j] } }

\* the strings of all plays of the hand that make the target
RuleSolutions(cs, target) ==
    { RuleString(pq[1], pq[2]) :
        pq \in { x \in Orderings(cs) \X AllOps(Len(cs) - 1) :
                   RuleValue(x[1], x[2]) = <<target>> } }

Range(s) == { s[i] : i \in 1..Len(s) }

\* the op_lists get_possible_ops iterates over for these cards
Candidates(cards) == combinations_with_replacement(order, Len(cards) - 1).items

----------------------------------------------------------------------------
(* Claims                                                                  *)

\* C1: completeness of solve.  For a hand of N >= 1 cards, every play
\* (ordering of the hand, N-1 operators chosen freely) whose left-to-right
\* value is exact and equals the target has its string in the returned set.
C1_Complete ==
    (called = "solve" /\ Len(args[1]) >= 1) =>
        /\ result.status = "ok"
        /\ RuleSolutions(args[1], args[2]) \subseteq result.solutions

\* C2: soundness of solve.  Every string in the returned set is the string
\* of some ordering of the hand and some N-1 operators whose left-to-right
\* value uses exact divisions only and equals the target.
C2_Sound ==
    (called = "solve" /\ Len(args[1]) >= 1) =>
        /\ result.status = "ok"
        /\ result.solutions \subseteq RuleSolutions(args[1], args[2])

C2_Witness ==
    /\ called = "solve"
    /\ Len(args[1]) = MaxHand
    /\ Cardinality(result.solutions) >= 2
    /\ \E i, j \in 1..Len(args[1]) : i # j /\ args[1][i].rank = args[1][j].rank

\* C3: coverage of get_possible_ops.  For M >= 1 cards the candidates are
\* all 4^(M-1) operator tuples, and the list returned holds exactly those
\* of them that get_value evaluates, without failing, to the target.
C3_Coverage ==
    (called = "get_possible_ops" /\ Len(args[1]) >= 1) =>
        LET cards == args[1]
            all   == AllOps(Len(cards) - 1)
        IN  /\ result.status = "ok"
            /\ Range(Candidates(cards)) = all
            /\ Range(result.possibilities) =
                 { ops \in all :
                     LET v == get_value(cards, ops)
                     IN  v.status = "ok" /\ v.value[1] = args[2] }

\* C4: for a hand of N >= 1 cards solve returns the empty set if and only
\* if no ordering of the hand with any N-1 operators makes the target.
C4_EmptyIffImpossible ==
    (called = "solve" /\ Len(args[1]) >= 1) =>
        /\ result.status = "ok"
        /\ (result.solutions = {}) <=> (RuleSolutions(args[1], args[2]) = {})

\* C5: get_value is a left-to-right fold.  With M-1 operators and no failing
\* division the value returned is the total got by starting at the first
\* card and applying each operator in turn to (total, next card); for three
\* cards it is op2(op1(c1, c2), c3), whatever the operators' precedence.
RECURSIVE Fold(_, _, _)
Fold(cards, operators, n) ==
    IF n = 0 THEN cards[1].value
    ELSE op_func(operators[n], Fold(cards, operators, n - 1),
                                cards[n + 1].value)

C5_LeftFold ==
    (called = "get_value" /\ result.status = "ok") =>
        LET cards == args[1]
            ops   == args[2]
        IN  /\ Len(ops) = Len(cards) - 1
            /\ result.value = <<Fold(cards, ops, Len(ops))>>
            /\ Len(cards) = 3 =>
                 result.value[1] =
                    op_func(ops[2],
                            op_func(ops[1], cards[1].value, cards[2].value),
                            cards[3].value)

\* precedence would give another value here
C5_Witness ==
    /\ called = "get_value"
    /\ result.status = "ok"
    /\ Len(args[1]) = 3
    /\ args[2] = <<"+", "*">>
    /\ result.value[1] #
         args[1][1].value + (args[1][2].value * args[1][3].value)

\* C6: the division rule.  At a step whose operator is "/", get_value fails
\* with the non-integer-division error iff the total so far (zero and
\* negative included) is not an exact multiple of the next card's value;
\* otherwise the step succeeds and new total * card value = old total.
C6_Division ==
    (called = "get_value" /\ Len(args[1]) = Len(args[2]) + 1) =>
        LET cards == args[1]
            ops   == args[2]
        IN  \A i \in 1..Len(ops) :
              LET before == get_value(SubSeq(cards, 1, i), SubSeq(ops, 1, i - 1))
                  after  == get_value(SubSeq(cards, 1, i + 1), SubSeq(ops, 1, i))
                  c      == cards[i + 1]
              IN  (ops[i] = "/" /\ before.status = "ok") =>
                    /\ after.status \in {"ok", "ValueError"}
                    /\ after.status = "ValueError"
                         <=> ~Multiple(before.value[1], c.value)
                    /\ after.status = "ok" =>
                         after.value[1] * c.value = before.value[1]
                    /\ (i = Len(ops)) => result = after

\* a negative total divided exactly
C6_Witness ==
    /\ called = "get_value"
    /\ Len(args[1]) = 3
    /\ args[2] = <<"-", "/">>
    /\ result.status = "ok"
    /\ result.value[1] < 0

\* C7: the non-integer-division failure never escapes.  For M >= 1 cards
\* get_possible_ops and solve return normally; a candidate that commits a
\* non-integer division is left out, and every candidate that evaluates to
\* the target, those after a failing one included, is recorded.
C7_NoEscape ==
    /\ (called = "get_possible_ops" /\ Len(args[1]) >= 1) =>
         /\ result.status = "ok"
         /\ LET recorded == Range(result.possibilities)
            IN  \A op_list \in Range(Candidates(args[1])) :
                  LET v == get_value(args[1], op_list)
                  IN  /\ v.status = "ValueError" => op_list \notin recorded
                      /\ (v.status = "ok" /\ v.value[1] = args[2]) =>
                            op_list \in recorded
    /\ (called = "solve" /\ Len(args[1]) >= 1) =>
         /\ result.status = "ok"
         /\ LET cands == Range(Candidates(args[1]))
            IN  \A card_list \in Orderings(args[1]) :
                  \A op_list \in cands :
                    LET v == get_value(card_list, op_list)
                    IN  (v.status = "ok" /\ v.value[1] = args[2]) =>
                           RuleString(card_list, op_list) \in result.solutions

\* a failing candidate comes before one that is recorded
C7_Witness ==
    /\ called = "get_possible_ops"
    /\ Len(args[1]) >= 2
    /\ \E k, m \in 1..Len(Candidates(args[1])) :
          /\ k < m
          /\ get_value(args[1], Candidates(args[1])[k]).status = "ValueError"
          /\ Candidates(args[1])[m] \in Range(result.possibilities)

\* C8: when the number of operators is not one less than the number of
\* cards, get_value fails the precondition check before any step and
\* returns no value.
C8_Precondition ==
    (called = "get_value" /\ Len(args[2]) # Len(args[1]) - 1) =>
        /\ result.status = "AssertionError"
        /\ result.value = <<>>
        /\ result.steps = 0

\* a full hand with a single operator
C8_Witness ==
    /\ called = "get_value"
    /\ Len(args[1]) = MaxHand
    /\ Len(args[2]) = 1
    /\ result.status = "AssertionError"

\* C9: Card(rank, suit) succeeds for each of the 13 ranks with each of the
\* 4 suits, with value A = 1, 2..9 = face value, 10/J/Q/K = 10 (so within
\* 1..10); for any other rank or suit it fails and produces no card.
PipRanks == <<"A", "2", "3", "4", "5", "6", "7", "8", "9">>

TenRanks == {"10", "J", "Q", "K"}

C9_Card ==
    called = "Card" =>
        LET rank == args[1]
            suit == args[2]
        IN  IF (rank \in Range(PipRanks) \cup TenRanks)
                 /\ suit \in {"h", "c", "d", "s"}
            THEN /\ result.status = "ok"
                 /\ Len(result.card) = 1
                 /\ result.card[1].rank = rank
                 /\ result.card[1].suit = suit
                 /\ result.card[1].value \in 1..10
                 /\ rank \in TenRanks => result.card[1].value = 10
                 /\ \A n \in 1..9 :
                      rank = PipRanks[n] => result.card[1].value = n
            ELSE /\ result.status = "ValueError"
                 /\ result.card = <<>>

C9_Witness ==
    /\ called = "Card"
    /\ args = <<"K", "s">>
    /\ result.status = "ok"
    /\ result.card[1].value = 10

\* C10: solve on a hand of zero cards does not return an empty collection:
\* the request for operator tuples of length -1 raises, and the error leaves
\* get_possible_ops and solve.  On a hand of one card solve returns
\* normally, {that card's rank} when its value is the target, else {}.
C10_SmallHands ==
    /\ (called \in {"solve", "get_possible_ops"} /\ Len(args[1]) = 0) =>
          result.status = "ValueError"
    /\ (called = "solve" /\ Len(args[1]) = 1) =>
          /\ result.status = "ok"
          /\ result.solutions =
                IF args[1][1].value = args[2] THEN {args[1][1].rank} ELSE {}

C10_Witness ==
    /\ called = "solve"
    /\ args[1] = <<>>
    /\ result.status = "ValueError"

====
